---- MODULE Spec2Model ----
(***************************************************************************)
(* Model of the verified-boot structure verifier of vboot_android:         *)
(* firmware/lib/vboot_common.c (VerifyMemberInside, PublicKeyToRSA,        *)
(* VerifyData, KeyBlockVerify, VerifyFirmwarePreamble,                      *)
(* VerifyKernelPreamble), driven on the objects built by                    *)
(* tests/vboot_common3_tests.c.                                             *)
(*                                                                         *)
(* Every `if` of a verifier is one step (one action).  A call works on a   *)
(* caller-owned buffer whose header fields are untrusted inputs; the       *)
(* outcome of the external SHA-512 / RSA primitives on the buffer's bytes  *)
(* is an input too.                                                        *)
(***************************************************************************)
EXTENDS Integers, Sequences, FiniteSets, TLC

(***************************************************************************)
(* Machine words.  uint64_t arithmetic is arithmetic modulo WordModulus,   *)
(* and a cast to int keeps the value modulo IntModulus.  The widths are    *)
(* scaled down (the code has 2^64 and 2^32); all field values below are    *)
(* chosen relative to them.                                                *)
(***************************************************************************)
WordModulus == 65536
IntModulus == 4096

U64(x) == x % WordModulus
ToInt(x) == x % IntModulus

(***************************************************************************)
(* Return codes, in the order of the kVbootErrors table.                   *)
(***************************************************************************)
VBOOT_SUCCESS == 0
VBOOT_KEY_BLOCK_INVALID == 1
VBOOT_KEY_BLOCK_SIGNATURE == 2
VBOOT_KEY_BLOCK_HASH == 3
VBOOT_PUBLIC_KEY_INVALID == 4
VBOOT_PREAMBLE_INVALID == 5
VBOOT_PREAMBLE_SIGNATURE == 6

(***************************************************************************)
(* Constants and struct layout the verifier uses (sizeof, member          *)
(* addresses, the algorithm table); their values are those of the         *)
(* headers vboot_struct.h and cryptolib.h.                                 *)
(***************************************************************************)
KEY_BLOCK_MAGIC == "CHROMEOS"
KEY_BLOCK_HEADER_VERSION_MAJOR == 2
FIRMWARE_PREAMBLE_HEADER_VERSION_MAJOR == 2
KERNEL_PREAMBLE_HEADER_VERSION_MAJOR == 2
kNumAlgorithms == 12
SHA512_DIGEST_SIZE == 64

SizeofVbSignature == 24
SizeofVbPublicKey == 32
SizeofVbKeyBlockHeader == 112
SizeofVbFirmwarePreambleHeader == 104
SizeofVbKernelPreambleHeader == 96

\* Offset of each sub-object header inside its parent struct.
MemberOffset(fn, member) ==
  CASE fn = "KeyBlockVerify" /\ member = "key_block_signature" -> 24
    [] fn = "KeyBlockVerify" /\ member = "key_block_checksum" -> 48
    [] fn = "KeyBlockVerify" /\ member = "data_key" -> 80
    [] fn = "VerifyFirmwarePreamble" /\ member = "preamble_signature" -> 8
    [] fn = "VerifyFirmwarePreamble" /\ member = "kernel_subkey" -> 48
    [] fn = "VerifyFirmwarePreamble" /\ member = "body_signature" -> 80
    [] fn = "VerifyKernelPreamble" /\ member = "preamble_signature" -> 8
    [] fn = "VerifyKernelPreamble" /\ member = "body_signature" -> 72

\* siglen_map[algorithm]: RSA1024/2048/4096/8192, three hashes each.
siglen_map(algorithm) ==
  CASE algorithm \in 0..2 -> 128
    [] algorithm \in 3..5 -> 256
    [] algorithm \in 6..8 -> 512
    [] algorithm \in 9..11 -> 1024

\* RSAProcessedKeySize: two arrays of key length plus two 32-bit words.
RSAProcessedKeySize(algorithm) == 2 * siglen_map(algorithm) + 8

(***************************************************************************)
(* Bounds arithmetic.                                                      *)
(***************************************************************************)
OffsetOf(base, ptr) == U64(ptr - base)

\* 0 if inside, 1 if error.
VerifyMemberInside(parent, parent_size, member, member_size, member_data_offset, member_data_size) ==
  LET end == OffsetOf(parent, member)
      end2 == U64(end + member_data_offset)
  IN IF end > parent_size THEN 1
     ELSE IF U64(end + member_size) > parent_size THEN 1
     ELSE IF end2 > parent_size THEN 1
     ELSE IF U64(end2 + member_data_size) > parent_size THEN 1
     ELSE 0

VerifyPublicKeyInside(parent, parent_size, keyAddr, k) ==
  VerifyMemberInside(parent, parent_size, keyAddr, SizeofVbPublicKey,
                     k.key_offset, k.key_size)

VerifySignatureInside(parent, parent_size, sigAddr, s) ==
  VerifyMemberInside(parent, parent_size, sigAddr, SizeofVbSignature,
                     s.sig_offset, s.sig_size)

(***************************************************************************)
(* The caller's buffer and the objects in it.                              *)
(*                                                                         *)
(* The test builds a well-formed object (KeyBlockCreate,                   *)
(* CreateFirmwarePreamble), copies it into a larger allocation and changes *)
(* header fields before calling the verifier.  The inputs of the model are *)
(* the well-formed objects with at most MaxMutations fields changed, each  *)
(* to one of the values listed for it; the list holds the values of the    *)
(* tests (offsets set to the object size, sizes halved or decremented,     *)
(* data_size = 4, versions +-1) and values that make the 64-bit sums wrap. *)
(***************************************************************************)
BufAddr == 4096
BufLen == 512
MaxMutations == 2

\* Layout: header, data key, checksum, signature.
BaseKeyBlock ==
  [magic |-> KEY_BLOCK_MAGIC,
   header_version_major |-> KEY_BLOCK_HEADER_VERSION_MAJOR,
   header_version_minor |-> 1,
   key_block_size |-> 312,
   key_block_signature |-> [sig_offset |-> 160, sig_size |-> 128, data_size |-> 120],
   key_block_checksum |-> [sig_offset |-> 72, sig_size |-> 64, data_size |-> 120],
   data_key |-> [key_offset |-> 32, key_size |-> 8],
   \* what the external primitives answer on the bytes of the buffer
   digest_matches |-> TRUE,
   signature_valid |-> TRUE]

\* The root key handed to KeyBlockVerify (a VbPublicKey or NULL); `parses`
\* is whether RSAPublicKeyFromBuf accepts its payload.
BaseRootKey ==
  [present |-> TRUE, algorithm |-> 0, key_size |-> RSAProcessedKeySize(0),
   parses |-> TRUE]

NullKey == [BaseRootKey EXCEPT !.present = FALSE]

\* Layout: header, kernel subkey, body signature, preamble signature.
BaseFirmwarePreamble ==
  [header_version_major |-> FIRMWARE_PREAMBLE_HEADER_VERSION_MAJOR,
   header_version_minor |-> 0,
   preamble_size |-> 296,
   preamble_signature |-> [sig_offset |-> 160, sig_size |-> 128, data_size |-> 168],
   kernel_subkey |-> [key_offset |-> 56, key_size |-> 8],
   body_signature |-> [sig_offset |-> 32, sig_size |-> 56, data_size |-> 78],
   signature_valid |-> TRUE]

\* Layout: header, body signature, preamble signature.
BaseKernelPreamble ==
  [header_version_major |-> KERNEL_PREAMBLE_HEADER_VERSION_MAJOR,
   header_version_minor |-> 0,
   preamble_size |-> 280,
   preamble_signature |-> [sig_offset |-> 144, sig_size |-> 128, data_size |-> 152],
   body_signature |-> [sig_offset |-> 24, sig_size |-> 56, data_size |-> 78],
   signature_valid |-> TRUE]

\* The RSAPublicKey handed to the preamble verifiers.
BaseRsaKey == [algorithm |-> 0]

KeyBlockMutations ==
  {<<<<"block", "magic">>, "\\x02HROMEOS">>,
   <<<<"block", "header_version_major">>, KEY_BLOCK_HEADER_VERSION_MAJOR + 1>>,
   <<<<"block", "header_version_major">>, KEY_BLOCK_HEADER_VERSION_MAJOR - 1>>,
   <<<<"block", "key_block_size">>, 200>>,
   <<<<"block", "key_block_size">>, 400>>,
   <<<<"block", "key_block_signature", "sig_offset">>, 312>>,
   <<<<"block", "key_block_signature", "sig_offset">>, WordModulus - 24 + 184>>,
   <<<<"block", "key_block_signature", "sig_size">>, 127>>,
   <<<<"block", "key_block_signature", "data_size">>, 4>>,
   <<<<"block", "key_block_signature", "data_size">>, SizeofVbKeyBlockHeader - 1>>,
   <<<<"block", "key_block_signature", "data_size">>, SizeofVbKeyBlockHeader>>,
   <<<<"block", "key_block_signature", "data_size">>, 313>>,
   <<<<"block", "key_block_checksum", "sig_offset">>, 312>>,
   <<<<"block", "key_block_checksum", "sig_offset">>, WordModulus - 48 + 120>>,
   <<<<"block", "key_block_checksum", "sig_size">>, 32>>,
   <<<<"block", "key_block_checksum", "data_size">>, 4>>,
   <<<<"block", "key_block_checksum", "data_size">>, SizeofVbKeyBlockHeader - 1>>,
   <<<<"block", "key_block_checksum", "data_size">>, SizeofVbKeyBlockHeader>>,
   <<<<"block", "key_block_checksum", "data_size">>, 313>>,
   <<<<"block", "key_block_checksum", "data_size">>, BufLen + 88>>,
   <<<<"block", "data_key", "key_offset">>, 312>>,
   <<<<"block", "data_key", "key_offset">>, 0>>,
   <<<<"block", "data_key", "key_offset">>, 40>>,
   <<<<"block", "data_key", "key_offset">>, WordModulus - 80>>,
   <<<<"block", "data_key", "key_size">>, 0>>,
   <<<<"block", "data_key", "key_size">>, WordModulus - 8>>,
   <<<<"block", "digest_matches">>, FALSE>>,
   <<<<"block", "signature_valid">>, FALSE>>,
   <<<<"key", "algorithm">>, kNumAlgorithms>>,
   <<<<"key", "algorithm">>, 3>>,
   <<<<"key", "key_size">>, RSAProcessedKeySize(0) - 1>>,
   <<<<"key", "key_size">>, RSAProcessedKeySize(0) + IntModulus>>,
   <<<<"key", "parses">>, FALSE>>}

FirmwarePreambleMutations ==
  {<<<<"block", "header_version_major">>, FIRMWARE_PREAMBLE_HEADER_VERSION_MAJOR + 1>>,
   <<<<"block", "header_version_major">>, FIRMWARE_PREAMBLE_HEADER_VERSION_MAJOR - 1>>,
   <<<<"block", "preamble_size">>, 200>>,
   <<<<"block", "preamble_size">>, 400>>,
   <<<<"block", "preamble_signature", "sig_offset">>, 296>>,
   <<<<"block", "preamble_signature", "sig_offset">>, WordModulus - 8 + 168>>,
   <<<<"block", "preamble_signature", "sig_size">>, 127>>,
   <<<<"block", "preamble_signature", "data_size">>, 4>>,
   <<<<"block", "preamble_signature", "data_size">>, SizeofVbFirmwarePreambleHeader - 1>>,
   <<<<"block", "preamble_signature", "data_size">>, SizeofVbFirmwarePreambleHeader>>,
   <<<<"block", "preamble_signature", "data_size">>, 297>>,
   <<<<"block", "kernel_subkey", "key_offset">>, 296>>,
   <<<<"block", "kernel_subkey", "key_offset">>, 0>>,
   <<<<"block", "kernel_subkey", "key_offset">>, 120>>,
   <<<<"block", "kernel_subkey", "key_offset">>, WordModulus - 48>>,
   <<<<"block", "kernel_subkey", "key_size">>, 0>>,
   <<<<"block", "kernel_subkey", "key_size">>, WordModulus - 8>>,
   <<<<"block", "body_signature", "sig_offset">>, 296>>,
   <<<<"block", "body_signature", "sig_offset">>, 0>>,
   <<<<"block", "body_signature", "sig_offset">>, WordModulus - 80>>,
   <<<<"block", "body_signature", "sig_size">>, 0>>,
   <<<<"block", "body_signature", "sig_size">>, WordModulus - 8>>,
   <<<<"block", "signature_valid">>, FALSE>>,
   <<<<"key", "algorithm">>, 3>>}

KernelPreambleMutations ==
  {<<<<"block", "header_version_major">>, KERNEL_PREAMBLE_HEADER_VERSION_MAJOR + 1>>,
   <<<<"block", "header_version_major">>, KERNEL_PREAMBLE_HEADER_VERSION_MAJOR - 1>>,
   <<<<"block", "preamble_size">>, 200>>,
   <<<<"block", "preamble_size">>, 400>>,
   <<<<"block", "preamble_signature", "sig_offset">>, 280>>,
   <<<<"block", "preamble_signature", "sig_offset">>, WordModulus - 8 + 152>>,
   <<<<"block", "preamble_signature", "sig_size">>, 127>>,
   <<<<"block", "preamble_signature", "data_size">>, 4>>,
   <<<<"block", "preamble_signature", "data_size">>, SizeofVbKernelPreambleHeader - 1>>,
   <<<<"block", "preamble_signature", "data_size">>, SizeofVbKernelPreambleHeader>>,
   <<<<"block", "preamble_signature", "data_size">>, 281>>,
   <<<<"block", "body_signature", "sig_offset">>, 280>>,
   <<<<"block", "body_signature", "sig_offset">>, 0>>,
   <<<<"block", "body_signature", "sig_offset">>, 224>>,
   <<<<"block", "body_signature", "sig_offset">>, WordModulus - 72>>,
   <<<<"block", "body_signature", "sig_size">>, 0>>,
   <<<<"block", "body_signature", "sig_size">>, WordModulus - 8>>,
   <<<<"block", "signature_valid">>, FALSE>>,
   <<<<"key", "algorithm">>, 3>>}

\* Input i with the field at path m[1] set to m[2].
Mutate(i, m) ==
  LET p == m[1]
  IN IF Len(p) = 2
       THEN [i EXCEPT ![p[1]][p[2]] = m[2]]
       ELSE [i EXCEPT ![p[1]][p[2]][p[3]] = m[2]]

RECURSIVE Mutated(_, _, _)
Mutated(S, M, n) ==
  IF n = 0 THEN S
  ELSE Mutated(S \cup {Mutate(i, m) : i \in S, m \in M}, M, n - 1)

Inputs ==
  Mutated({[fn |-> "KeyBlockVerify", block |-> BaseKeyBlock, key |-> BaseRootKey],
           [fn |-> "KeyBlockVerify", block |-> BaseKeyBlock, key |-> NullKey]},
          KeyBlockMutations, MaxMutations)
  \cup Mutated({[fn |-> "VerifyFirmwarePreamble", block |-> BaseFirmwarePreamble,
                 key |-> BaseRsaKey]},
               FirmwarePreambleMutations, MaxMutations)
  \cup Mutated({[fn |-> "VerifyKernelPreamble", block |-> BaseKernelPreamble,
                 key |-> BaseRsaKey]},
               KernelPreambleMutations, MaxMutations)

\* The size the object declares for itself.
ObjectSize(fn, blk) ==
  IF fn = "KeyBlockVerify" THEN blk.key_block_size ELSE blk.preamble_size

\* The lengths a caller passes: the declared size, one less, one more
\* (the tests' hsize, hsize - 1, hsize + 1) and half of it, within the
\* allocation.
CallSizes(fn, blk) ==
  {ObjectSize(fn, blk) \div 2, ObjectSize(fn, blk) - 1, ObjectSize(fn, blk),
   ObjectSize(fn, blk) + 1}
    \cap (0..BufLen)

\* Address of the sub-object header `member` of the object at BufAddr.
MemberAddr(fn, member) == BufAddr + MemberOffset(fn, member)

(***************************************************************************)
(* State.                                                                  *)
(***************************************************************************)
VARIABLES
  fn,              \* the verifier the caller uses on the buffer
  block,           \* the header fields of the object in the buffer
  key,             \* the key argument
  size,            \* the length the caller passed to the current call
  pc,              \* position of the current call
  result,          \* return value of the last call, NoResult before it
  sig,             \* the local `sig`: the sub-object it points to
  rsa,             \* the local `rsa` of KeyBlockVerify
  header_checksum, \* the local `header_checksum` of KeyBlockVerify
  rv,              \* the local `rv`
  trace,           \* checks and primitive calls of the current call, in order
  reads,           \* byte ranges <<start, length>> of the buffer handed to
                   \* the hash, the RSA primitive and SafeMemcmp
  accepted,        \* the lengths at which the verifier accepted the buffer
  earlier          \* <<size, result>> of the call made on the object before
                   \* its minor version was changed, NoCall while unchanged

vars == <<fn, block, key, size, pc, result, sig, rsa, header_checksum, rv,
          trace, reads, accepted, earlier>>

NoResult == 0 - 1
NoCall == <<>>

Init ==
  /\ \E i \in Inputs : fn = i.fn /\ block = i.block /\ key = i.key
  /\ size = 0
  /\ pc = "idle"
  /\ result = NoResult
  /\ sig = "unset"
  /\ rsa = "NULL"
  /\ header_checksum = "NULL"
  /\ rv = 0
  /\ trace = <<>>
  /\ reads = {}
  /\ accepted = {}
  /\ earlier = NoCall

Entry(f) ==
  CASE f = "KeyBlockVerify" -> "kb_magic"
    [] f = "VerifyFirmwarePreamble" -> "fw_version"
    [] f = "VerifyKernelPreamble" -> "kp_version"

\* The caller calls the verifier on the buffer with some length.
Call ==
  /\ pc \in {"idle", "done"}
  /\ \E s \in CallSizes(fn, block) : size' = s
  /\ pc' = Entry(fn)
  /\ result' = NoResult
  /\ sig' = IF fn = "KeyBlockVerify" THEN "unset" ELSE "preamble_signature"
  /\ rsa' = "NULL"
  /\ header_checksum' = "NULL"
  /\ rv' = 0
  /\ trace' = <<>>
  /\ reads' = {}
  /\ UNCHANGED <<fn, block, key, accepted, earlier>>

\* return code;
Return(code) ==
  /\ pc' = "done"
  /\ result' = code
  /\ accepted' = IF code = VBOOT_SUCCESS THEN accepted \cup {size} ELSE accepted

\* if (failed) return code;  and on to the next statement otherwise.
Check(from, name, failed, code, to) ==
  /\ pc = from
  /\ trace' = Append(trace, name)
  /\ IF failed THEN Return(code)
     ELSE pc' = to /\ UNCHANGED <<result, accepted>>

\* Offset in the buffer of the payload GetSignatureDataC(sig) points to.
SignatureData(f, member, s) == U64(MemberOffset(f, member) + s.sig_offset)

(***************************************************************************)
(* PublicKeyToRSA and VerifyData.                                          *)
(***************************************************************************)
\* Mutant of PublicKeyToRSA: the key size is not compared with the size the
\* algorithm requires.
PublicKeyToRSA_NoSizeCheck(k) ==
  IF kNumAlgorithms <= k.algorithm THEN FALSE
  ELSE k.parses

\* TRUE when PublicKeyToRSA returns an RSAPublicKey, FALSE when NULL.
PublicKeyToRSA(k) ==
  IF kNumAlgorithms <= k.algorithm THEN FALSE
  ELSE IF RSAProcessedKeySize(ToInt(k.algorithm)) # ToInt(k.key_size) THEN FALSE
  ELSE k.parses

\* Mutant of VerifyData: the RSA primitive is called before data_size is
\* compared with the length of the buffer.
VerifyData_RsaFirst(dataLen, s, sigData, algorithm, valid) ==
  IF s.sig_size # siglen_map(algorithm)
    THEN [rv |-> 1, trace |-> <<"sig_size">>, reads |-> {}]
  ELSE [rv |-> IF valid /\ s.data_size <= dataLen THEN 0 ELSE 1,
        trace |-> <<"sig_size", "RSA", "data_size_in_buffer">>,
        reads |-> {<<0, s.data_size>>, <<sigData, s.sig_size>>}]

\* VerifyData(data, dataLen, sig, key): its return value, the checks and
\* the primitive call it makes, and the byte ranges the primitive reads.
\* sigData is the offset of the signature payload, valid the answer of
\* RSAVerifyBinary_f on these bytes.
VerifyData(dataLen, s, sigData, algorithm, valid) ==
  IF s.sig_size # siglen_map(algorithm)
    THEN [rv |-> 1, trace |-> <<"sig_size">>, reads |-> {}]
  ELSE IF s.data_size > dataLen
    THEN [rv |-> 1, trace |-> <<"sig_size", "data_size_in_buffer">>, reads |-> {}]
  ELSE [rv |-> IF valid THEN 0 ELSE 1,
        trace |-> <<"sig_size", "data_size_in_buffer", "RSA">>,
        reads |-> {<<0, s.data_size>>, <<sigData, s.sig_size>>}]

buffer == <<fn, block, key, size>>

(***************************************************************************)
(* KeyBlockVerify(block, size, key).                                       *)
(***************************************************************************)
KbMagic ==
  /\ Check("kb_magic", "magic", block.magic # KEY_BLOCK_MAGIC,
           VBOOT_KEY_BLOCK_INVALID, "kb_version")
  /\ UNCHANGED <<buffer, earlier, sig, rsa, header_checksum, rv, reads>>

KbVersion ==
  /\ Check("kb_version", "version",
           block.header_version_major # KEY_BLOCK_HEADER_VERSION_MAJOR,
           VBOOT_KEY_BLOCK_INVALID, "kb_size")
  /\ UNCHANGED <<buffer, earlier, sig, rsa, header_checksum, rv, reads>>

\* Mutant of KbSize: a length one byte short of the declared size passes.
KbSize_OffByOne ==
  /\ Check("kb_size", "size", size + 1 < block.key_block_size,
           VBOOT_KEY_BLOCK_INVALID,
           IF key.present THEN "kb_sig_inside" ELSE "kb_hash_inside")
  /\ UNCHANGED <<buffer, earlier, sig, rsa, header_checksum, rv, reads>>

\* if (size < block->key_block_size) ...; if (key) ... else ...
KbSize ==
  /\ Check("kb_size", "size", size < block.key_block_size,
           VBOOT_KEY_BLOCK_INVALID,
           IF key.present THEN "kb_sig_inside" ELSE "kb_hash_inside")
  /\ UNCHANGED <<buffer, earlier, sig, rsa, header_checksum, rv, reads>>

\* Keyed mode.
KbSigInside ==
  /\ Check("kb_sig_inside", "sig_inside",
           VerifySignatureInside(BufAddr, block.key_block_size,
                                 MemberAddr(fn, "key_block_signature"),
                                 block.key_block_signature) # 0,
           VBOOT_KEY_BLOCK_INVALID, "kb_rsa")
  /\ sig' = "key_block_signature"
  /\ UNCHANGED <<buffer, earlier, rsa, header_checksum, rv, reads>>

KbPublicKeyToRSA ==
  /\ Check("kb_rsa", "public_key", ~PublicKeyToRSA(key),
           VBOOT_PUBLIC_KEY_INVALID, "kb_data_size")
  /\ rsa' = IF PublicKeyToRSA(key) THEN "allocated" ELSE "NULL"
  /\ UNCHANGED <<buffer, earlier, sig, header_checksum, rv, reads>>

KbDataSize ==
  /\ Check("kb_data_size", "data_size_in_object",
           block.key_block_size < block[sig].data_size,
           VBOOT_KEY_BLOCK_INVALID, "kb_verify_data")
  /\ UNCHANGED <<buffer, earlier, sig, rsa, header_checksum, rv, reads>>

KbVerifyData ==
  /\ pc = "kb_verify_data"
  /\ LET r == VerifyData(size, block[sig], SignatureData(fn, sig, block[sig]),
                         key.algorithm, block.signature_valid)
     IN /\ rv' = r.rv
        /\ trace' = trace \o r.trace
        /\ reads' = reads \cup r.reads
  /\ pc' = "kb_rsa_free"
  /\ UNCHANGED <<buffer, earlier, sig, rsa, header_checksum, result, accepted>>

\* RSAPublicKeyFree(rsa); if (rv) return VBOOT_KEY_BLOCK_SIGNATURE;
KbRSAPublicKeyFree ==
  /\ pc = "kb_rsa_free"
  /\ rsa' = "freed"
  /\ IF rv # 0 THEN Return(VBOOT_KEY_BLOCK_SIGNATURE)
     ELSE pc' = "kb_signed_enough" /\ UNCHANGED <<result, accepted>>
  /\ UNCHANGED <<buffer, earlier, sig, header_checksum, rv, trace, reads>>

\* Hash mode.
KbHashInside ==
  /\ Check("kb_hash_inside", "sig_inside",
           VerifySignatureInside(BufAddr, block.key_block_size,
                                 MemberAddr(fn, "key_block_checksum"),
                                 block.key_block_checksum) # 0,
           VBOOT_KEY_BLOCK_INVALID, "kb_hash_size")
  /\ sig' = "key_block_checksum"
  /\ UNCHANGED <<buffer, earlier, rsa, header_checksum, rv, reads>>

KbHashSize ==
  /\ Check("kb_hash_size", "sig_size",
           block[sig].sig_size # SHA512_DIGEST_SIZE,
           VBOOT_KEY_BLOCK_INVALID, "kb_digest")
  /\ UNCHANGED <<buffer, earlier, sig, rsa, header_checksum, rv, reads>>

\* header_checksum = DigestBuf(block, sig->data_size, SHA512_DIGEST_ALGORITHM)
KbDigestBuf ==
  /\ pc = "kb_digest"
  /\ header_checksum' = "allocated"
  /\ trace' = Append(trace, "SHA512")
  /\ reads' = reads \cup {<<0, block[sig].data_size>>}
  /\ pc' = "kb_memcmp"
  /\ UNCHANGED <<buffer, earlier, sig, rsa, rv, result, accepted>>

\* What the comparison of the digest with the checksum can answer: the
\* answer for the bytes of the buffer; any answer when the digest was
\* computed over bytes past the end of the allocation.
DigestOutcomes ==
  IF block[sig].data_size <= BufLen THEN {block.digest_matches} ELSE BOOLEAN

\* rv = SafeMemcmp(header_checksum, GetSignatureDataC(sig), SHA512_DIGEST_SIZE)
KbSafeMemcmp ==
  /\ pc = "kb_memcmp"
  /\ \E same \in DigestOutcomes : rv' = IF same THEN 0 ELSE 1
  /\ reads' = reads \cup {<<SignatureData(fn, sig, block[sig]), SHA512_DIGEST_SIZE>>}
  /\ pc' = "kb_free"
  /\ UNCHANGED <<buffer, earlier, sig, rsa, header_checksum, trace, result, accepted>>

\* Free(header_checksum); if (rv) return VBOOT_KEY_BLOCK_HASH;
KbFree ==
  /\ pc = "kb_free"
  /\ header_checksum' = "freed"
  /\ IF rv # 0 THEN Return(VBOOT_KEY_BLOCK_HASH)
     ELSE pc' = "kb_signed_enough" /\ UNCHANGED <<result, accepted>>
  /\ UNCHANGED <<buffer, earlier, sig, rsa, rv, trace, reads>>

\* Both modes.
KbSignedEnough ==
  /\ Check("kb_signed_enough", "signed_enough",
           block[sig].data_size < SizeofVbKeyBlockHeader,
           VBOOT_KEY_BLOCK_INVALID, "kb_key_in_block")
  /\ UNCHANGED <<buffer, earlier, sig, rsa, header_checksum, rv, reads>>

KbDataKeyInsideBlock ==
  /\ Check("kb_key_in_block", "data_key_inside",
           VerifyPublicKeyInside(BufAddr, block.key_block_size,
                                 MemberAddr(fn, "data_key"), block.data_key) # 0,
           VBOOT_KEY_BLOCK_INVALID, "kb_key_in_signed")
  /\ UNCHANGED <<buffer, earlier, sig, rsa, header_checksum, rv, reads>>

KbDataKeyInsideSigned ==
  /\ Check("kb_key_in_signed", "data_key_inside_signed",
           VerifyPublicKeyInside(BufAddr, block[sig].data_size,
                                 MemberAddr(fn, "data_key"), block.data_key) # 0,
           VBOOT_KEY_BLOCK_INVALID, "kb_success")
  /\ UNCHANGED <<buffer, earlier, sig, rsa, header_checksum, rv, reads>>

\* return VBOOT_SUCCESS;
Success(from) ==
  /\ pc = from
  /\ Return(VBOOT_SUCCESS)
  /\ UNCHANGED <<buffer, earlier, sig, rsa, header_checksum, rv, trace, reads>>

KbSuccess == Success("kb_success")

KeyBlockVerify ==
  \/ KbMagic \/ KbVersion \/ KbSize
  \/ KbSigInside \/ KbPublicKeyToRSA \/ KbDataSize \/ KbVerifyData
  \/ KbRSAPublicKeyFree
  \/ KbHashInside \/ KbHashSize \/ KbDigestBuf \/ KbSafeMemcmp \/ KbFree
  \/ KbSignedEnough \/ KbDataKeyInsideBlock \/ KbDataKeyInsideSigned
  \/ KbSuccess

(***************************************************************************)
(* VerifyFirmwarePreamble(preamble, size, key).                            *)
(***************************************************************************)
FwVersion ==
  /\ Check("fw_version", "version",
           block.header_version_major # FIRMWARE_PREAMBLE_HEADER_VERSION_MAJOR,
           VBOOT_PREAMBLE_INVALID, "fw_size")
  /\ UNCHANGED <<buffer, earlier, sig, rsa, header_checksum, rv, reads>>

FwSize ==
  /\ Check("fw_size", "size", size < block.preamble_size,
           VBOOT_PREAMBLE_INVALID, "fw_sig_inside")
  /\ UNCHANGED <<buffer, earlier, sig, rsa, header_checksum, rv, reads>>

FwSigInside ==
  /\ Check("fw_sig_inside", "sig_inside",
           VerifySignatureInside(BufAddr, block.preamble_size,
                                 MemberAddr(fn, sig), block[sig]) # 0,
           VBOOT_PREAMBLE_INVALID, "fw_data_size")
  /\ UNCHANGED <<buffer, earlier, sig, rsa, header_checksum, rv, reads>>

FwDataSize ==
  /\ Check("fw_data_size", "data_size_in_object",
           block.preamble_size < block[sig].data_size,
           VBOOT_PREAMBLE_INVALID, "fw_verify_data")
  /\ UNCHANGED <<buffer, earlier, sig, rsa, header_checksum, rv, reads>>

\* if (VerifyData(preamble, size, sig, key)) return VBOOT_PREAMBLE_SIGNATURE;
PreambleVerifyData(from, to) ==
  /\ pc = from
  /\ LET r == VerifyData(size, block[sig], SignatureData(fn, sig, block[sig]),
                         key.algorithm, block.signature_valid)
     IN /\ trace' = trace \o r.trace
        /\ reads' = reads \cup r.reads
        /\ IF r.rv # 0 THEN Return(VBOOT_PREAMBLE_SIGNATURE)
           ELSE pc' = to /\ UNCHANGED <<result, accepted>>
  /\ UNCHANGED <<buffer, earlier, sig, rsa, header_checksum, rv>>

FwVerifyData == PreambleVerifyData("fw_verify_data", "fw_signed_enough")

FwSignedEnough ==
  /\ Check("fw_signed_enough", "signed_enough",
           block[sig].data_size < SizeofVbFirmwarePreambleHeader,
           VBOOT_PREAMBLE_INVALID, "fw_body_inside")
  /\ UNCHANGED <<buffer, earlier, sig, rsa, header_checksum, rv, reads>>

FwBodySignatureInside ==
  /\ Check("fw_body_inside", "body_signature_inside",
           VerifySignatureInside(BufAddr, block.preamble_size,
                                 MemberAddr(fn, "body_signature"),
                                 block.body_signature) # 0,
           VBOOT_PREAMBLE_INVALID, "fw_subkey_inside")
  /\ UNCHANGED <<buffer, earlier, sig, rsa, header_checksum, rv, reads>>

FwKernelSubkeyInside ==
  /\ Check("fw_subkey_inside", "kernel_subkey_inside",
           VerifyPublicKeyInside(BufAddr, block.preamble_size,
                                 MemberAddr(fn, "kernel_subkey"),
                                 block.kernel_subkey) # 0,
           VBOOT_PREAMBLE_INVALID, "fw_success")
  /\ UNCHANGED <<buffer, earlier, sig, rsa, header_checksum, rv, reads>>

FwSuccess == Success("fw_success")

VerifyFirmwarePreamble ==
  \/ FwVersion \/ FwSize \/ FwSigInside \/ FwDataSize \/ FwVerifyData
  \/ FwSignedEnough \/ FwBodySignatureInside \/ FwKernelSubkeyInside
  \/ FwSuccess

(***************************************************************************)
(* VerifyKernelPreamble(preamble, size, key).                              *)
(***************************************************************************)
KpVersion ==
  /\ Check("kp_version", "version",
           block.header_version_major # KERNEL_PREAMBLE_HEADER_VERSION_MAJOR,
           VBOOT_PREAMBLE_INVALID, "kp_size")
  /\ UNCHANGED <<buffer, earlier, sig, rsa, header_checksum, rv, reads>>

KpSize ==
  /\ Check("kp_size", "size", size < block.preamble_size,
           VBOOT_PREAMBLE_INVALID, "kp_sig_inside")
  /\ UNCHANGED <<buffer, earlier, sig, rsa, header_checksum, rv, reads>>

KpSigInside ==
  /\ Check("kp_sig_inside", "sig_inside",
           VerifySignatureInside(BufAddr, block.preamble_size,
                                 MemberAddr(fn, sig), block[sig]) # 0,
           VBOOT_PREAMBLE_INVALID, "kp_verify_data")
  /\ UNCHANGED <<buffer, earlier, sig, rsa, header_checksum, rv, reads>>

KpVerifyData == PreambleVerifyData("kp_verify_data", "kp_signed_enough")

KpSignedEnough ==
  /\ Check("kp_signed_enough", "signed_enough",
           block[sig].data_size < SizeofVbKernelPreambleHeader,
           VBOOT_PREAMBLE_INVALID, "kp_body_inside")
  /\ UNCHANGED <<buffer, earlier, sig, rsa, header_checksum, rv, reads>>

KpBodySignatureInside ==
  /\ Check("kp_body_inside", "body_signature_inside",
           VerifySignatureInside(BufAddr, block.preamble_size,
                                 MemberAddr(fn, "body_signature"),
                                 block.body_signature) # 0,
           VBOOT_PREAMBLE_INVALID, "kp_success")
  /\ UNCHANGED <<buffer, earlier, sig, rsa, header_checksum, rv, reads>>

KpSuccess == Success("kp_success")

VerifyKernelPreamble ==
  \/ KpVersion \/ KpSize \/ KpSigInside \/ KpVerifyData
  \/ KpSignedEnough \/ KpBodySignatureInside
  \/ KpSuccess

(***************************************************************************)
(* The caller changes the minor version of an object it has verified and   *)
(* has it re-checksummed / re-signed (h->header_version_minor++ or --,     *)
(* then ReChecksumKeyBlock / ReSignFirmwarePreamble): the 32-bit field     *)
(* changes, the primitives answer on the new bytes as they did on the old. *)
(***************************************************************************)
MinorVersionChange ==
  /\ pc = "done"
  /\ earlier = NoCall
  /\ \E d \in {1, 0 - 1} :
       block' = [block EXCEPT !.header_version_minor = (@ + d) % IntModulus]
  /\ earlier' = <<size, result>>
  /\ pc' = "idle"
  /\ UNCHANGED <<fn, key, size, result, sig, rsa, header_checksum, rv, trace,
                 reads, accepted>>

Next ==
  \/ Call \/ MinorVersionChange
  \/ KeyBlockVerify \/ VerifyFirmwarePreamble \/ VerifyKernelPreamble

Spec == Init /\ [][Next]_vars

(***************************************************************************)
(* VerifyMemberInside on its own: the arguments are drawn from words that  *)
(* include the ends of the word range, and a member below its parent.      *)
(***************************************************************************)
MemberPointers == {BufAddr - 8, BufAddr, BufAddr + 80}
ParentSizes == {100, 312, WordModulus - 1}
MemberSizes == {0, 24, WordModulus - 24}
MemberDataOffsets == {0, 32, 232, WordModulus - 80, WordModulus - 1}
MemberDataSizes == {0, 8, 300, WordModulus - 8}

InitMember ==
  /\ fn = "VerifyMemberInside"
  /\ \E m \in MemberPointers, ps \in ParentSizes, ms \in MemberSizes,
        o \in MemberDataOffsets, ds \in MemberDataSizes :
       block = [parent |-> BufAddr, parent_size |-> ps, member |-> m,
                member_size |-> ms, member_data_offset |-> o,
                member_data_size |-> ds]
  /\ key = BaseRsaKey
  /\ size = 0
  /\ pc = "idle"
  /\ result = NoResult
  /\ sig = "unset"
  /\ rsa = "NULL"
  /\ header_checksum = "NULL"
  /\ rv = 0
  /\ trace = <<>>
  /\ reads = {}
  /\ accepted = {}
  /\ earlier = NoCall

CallVerifyMemberInside ==
  /\ pc = "idle"
  /\ result' = VerifyMemberInside(block.parent, block.parent_size, block.member,
                                  block.member_size, block.member_data_offset,
                                  block.member_data_size)
  /\ pc' = "done"
  /\ UNCHANGED <<buffer, earlier, sig, rsa, header_checksum, rv, trace, reads, accepted>>

NextMember == CallVerifyMemberInside

SpecMember == InitMember /\ [][NextMember]_vars

(***************************************************************************)
(* Properties.                                                             *)
(***************************************************************************)
Done == pc = "done"
Accepted == pc = "done" /\ result = VBOOT_SUCCESS

SubObjects(f) ==
  CASE f = "KeyBlockVerify" -> {"key_block_checksum", "key_block_signature", "data_key"}
    [] f = "VerifyFirmwarePreamble" -> {"preamble_signature", "body_signature", "kernel_subkey"}
    [] f = "VerifyKernelPreamble" -> {"preamble_signature", "body_signature"}

IsKey(member) == member \in {"data_key", "kernel_subkey"}
HeaderSize(member) == IF IsKey(member) THEN SizeofVbPublicKey ELSE SizeofVbSignature
PayloadOffset(member) ==
  IF IsKey(member) THEN block[member].key_offset ELSE block[member].sig_offset
PayloadSize(member) ==
  IF IsKey(member) THEN block[member].key_size ELSE block[member].sig_size

\* End of the payload of `member` in the object, in exact arithmetic.
PayloadEnd(member) ==
  MemberOffset(fn, member) + PayloadOffset(member) + PayloadSize(member)

\* Header and payload of `member` lie in the first `limit` bytes.
WithinFirst(member, limit) ==
  /\ MemberOffset(fn, member) + HeaderSize(member) <= limit
  /\ PayloadEnd(member) <= limit

CryptoEvents == {"SHA512", "RSA"}
\* Checks the verifiers make before the hash / RSA step, and after it.
ChecksBefore ==
  {"magic", "version", "size", "sig_inside", "public_key",
   "data_size_in_object", "sig_size", "data_size_in_buffer"}
ChecksAfter ==
  {"signed_enough", "data_key_inside", "data_key_inside_signed",
   "body_signature_inside", "kernel_subkey_inside"}
CryptoStarted == \E i \in DOMAIN trace : trace[i] \in CryptoEvents

\* C1: an accepted key block or preamble has the payload range of every
\* sub-object, computed without wrap-around, inside [0, object size).
C1_BoundsClosure ==
  Accepted =>
    \A m \in SubObjects(fn) : PayloadEnd(m) <= ObjectSize(fn, block)

\* C2: an accepted key block has sig.data_size >= sizeof(VbKeyBlockHeader)
\* and the data_key header and payload, computed without wrap-around, in the
\* first sig.data_size bytes.
C2_SignedPrefixCoverage ==
  (Accepted /\ fn = "KeyBlockVerify") =>
    /\ block[sig].data_size >= SizeofVbKeyBlockHeader
    /\ WithinFirst("data_key", block[sig].data_size)

\* C3: an accepted firmware preamble has kernel_subkey and body_signature,
\* and an accepted kernel preamble has body_signature, in the first
\* preamble_signature.data_size bytes.
C3_SubObjectsSigned ==
  /\ (Accepted /\ fn = "VerifyFirmwarePreamble") =>
       /\ WithinFirst("kernel_subkey", block.preamble_signature.data_size)
       /\ WithinFirst("body_signature", block.preamble_signature.data_size)
  /\ (Accepted /\ fn = "VerifyKernelPreamble") =>
       WithinFirst("body_signature", block.preamble_signature.data_size)

\* C4: every byte range a verifier hashes or compares lies in [0, size) of
\* the caller's buffer, whatever the verdict.
C4_NoReadOutsideBuffer ==
  \A r \in reads : r[1] + r[2] <= size

\* C5: the hash / RSA step is reached only with the authenticating
\* signature's data_size <= the declared size of the object.
C5_SignedLengthBounded ==
  (fn # "VerifyMemberInside" /\ CryptoStarted) =>
    block[sig].data_size <= ObjectSize(fn, block)

\* C6: VerifyMemberInside returns 0 exactly when, in exact arithmetic, the
\* member starts at or after the parent and its header, payload start and
\* payload end are all within parent_size; any wrapping sum returns 1.
C6_MemberInsideExact ==
  (fn = "VerifyMemberInside" /\ Done) =>
    LET d == block.member - block.parent
    IN (result = 0) <=>
         /\ d >= 0
         /\ d <= block.parent_size
         /\ d + block.member_size <= block.parent_size
         /\ d + block.member_data_offset <= block.parent_size
         /\ d + block.member_data_offset + block.member_data_size
              <= block.parent_size

\* C7 as claimed: no structural check is made after a hash or RSA call of
\* the same invocation.
C7_AllChecksBeforeCrypto ==
  \A i, j \in DOMAIN trace :
    (i < j /\ trace[i] \in CryptoEvents) =>
      trace[j] \notin (ChecksBefore \cup ChecksAfter)

\* C7 amended: the checks of magic, version, buffer size, containment of
\* the authenticating signature, root key, data_size against the object and
\* the buffer, and signature size precede the hash / RSA step; the checks
\* data_size >= sizeof(header) and containment of data_key, body_signature
\* and kernel_subkey are made only after it.
C7_ChecksAroundCrypto ==
  \A j \in DOMAIN trace :
    /\ trace[j] \in ChecksBefore =>
         \A i \in 1..(j - 1) : trace[i] \notin CryptoEvents
    /\ trace[j] \in ChecksAfter =>
         \E i \in 1..(j - 1) : trace[i] \in CryptoEvents

\* C7 witness: a call that made a check after its hash / RSA step.
C7_Witness ==
  \E i, j \in DOMAIN trace :
    i < j /\ trace[i] \in CryptoEvents /\ trace[j] \in ChecksAfter

\* C8: KeyBlockVerify returns owning neither the RSA key nor the digest.
C8_ResourcesReleased ==
  (Done /\ fn = "KeyBlockVerify") =>
    (rsa # "allocated" /\ header_checksum # "allocated")

\* The verdict of KeyBlockVerify by the ordered list of its steps, given
\* whether the root key counts as unusable.
KeyBlockVerdict(keyUnusable) ==
  LET tail(s) ==
        IF s.data_size < SizeofVbKeyBlockHeader THEN VBOOT_KEY_BLOCK_INVALID
        ELSE IF \/ VerifyPublicKeyInside(BufAddr, block.key_block_size,
                                         MemberAddr(fn, "data_key"),
                                         block.data_key) # 0
                \/ VerifyPublicKeyInside(BufAddr, s.data_size,
                                         MemberAddr(fn, "data_key"),
                                         block.data_key) # 0
          THEN VBOOT_KEY_BLOCK_INVALID
        ELSE VBOOT_SUCCESS
      keyed ==
        LET s == block.key_block_signature
        IN IF VerifySignatureInside(BufAddr, block.key_block_size,
                                    MemberAddr(fn, "key_block_signature"), s) # 0
             THEN VBOOT_KEY_BLOCK_INVALID
           ELSE IF keyUnusable THEN VBOOT_PUBLIC_KEY_INVALID
           ELSE IF block.key_block_size < s.data_size
             THEN VBOOT_KEY_BLOCK_INVALID
           ELSE IF s.sig_size # siglen_map(key.algorithm) \/ ~block.signature_valid
             THEN VBOOT_KEY_BLOCK_SIGNATURE
           ELSE tail(s)
      hashed ==
        LET s == block.key_block_checksum
        IN IF VerifySignatureInside(BufAddr, block.key_block_size,
                                    MemberAddr(fn, "key_block_checksum"), s) # 0
             THEN VBOOT_KEY_BLOCK_INVALID
           ELSE IF s.sig_size # SHA512_DIGEST_SIZE THEN VBOOT_KEY_BLOCK_INVALID
           ELSE IF rv # 0 THEN VBOOT_KEY_BLOCK_HASH
           ELSE tail(s)
  IN IF block.magic # KEY_BLOCK_MAGIC THEN VBOOT_KEY_BLOCK_INVALID
     ELSE IF block.header_version_major # KEY_BLOCK_HEADER_VERSION_MAJOR
       THEN VBOOT_KEY_BLOCK_INVALID
     ELSE IF size < block.key_block_size THEN VBOOT_KEY_BLOCK_INVALID
     ELSE IF key.present THEN keyed ELSE hashed

InvalidCode(f) ==
  IF f = "KeyBlockVerify" THEN VBOOT_KEY_BLOCK_INVALID ELSE VBOOT_PREAMBLE_INVALID

\* The checks a verifier makes before it looks at any sub-object.
ChecksOfHeader == {"magic", "version", "size"}

\* C11: a call with a length smaller than the size the object declares
\* makes no check but those of magic, version and length, hands nothing to
\* the hash / RSA / compare primitives, and returns the verifier's INVALID
\* code; so it does at length n - 1 when the object was accepted with the
\* length n it declares.
C11_ShrinkRejection ==
  size < ObjectSize(fn, block) =>
    /\ \A i \in DOMAIN trace : trace[i] \in ChecksOfHeader
    /\ reads = {}
    /\ Done => result = InvalidCode(fn)

\* C11 witness: an object accepted with the length it declares was then
\* refused by the length check, with the INVALID code, at one byte less.
C11_Witness ==
  /\ Done
  /\ ObjectSize(fn, block) \in accepted
  /\ size = ObjectSize(fn, block) - 1
  /\ trace # <<>> /\ trace[Len(trace)] = "size"
  /\ result = InvalidCode(fn)

\* The major version a verifier expects.
ExpectedMajor(f) ==
  CASE f = "KeyBlockVerify" -> KEY_BLOCK_HEADER_VERSION_MAJOR
    [] f = "VerifyFirmwarePreamble" -> FIRMWARE_PREAMBLE_HEADER_VERSION_MAJOR
    [] f = "VerifyKernelPreamble" -> KERNEL_PREAMBLE_HEADER_VERSION_MAJOR

====
